---- MODULE Spec2Model ----
(***************************************************************************)
(* Model of the real-time streaming subsystem of openalgo-rust             *)
(* (src/src/websocket.rs): OpenAlgoWebSocket::connect, the reader task and *)
(* the writer task it spawns, the two bounded mpsc channels, the           *)
(* WsSubscriber facade and the market-data codec parse_market_data.        *)
(*                                                                         *)
(* Processes: connect (the caller's future until it returns), the reader   *)
(* task, the writer task and the caller after connect has returned.  Every *)
(* .await of the source is a step boundary; the server is the environment  *)
(* and chooses each inbound message.                                       *)
(***************************************************************************)
EXTENDS Integers, Sequences, FiniteSets, TLC

\* ---------------------------------------------------------------- bounds
\* Capacity of the command channel.  The source creates it with 32 slots
\* (websocket.rs:67); the model scales it down so that "full" is reachable.
CmdCap == 2
\* Capacity of the event channel.  The source creates it with 128 slots
\* (websocket.rs:68); scaled down likewise.
DataCap == 2
\* Number of results read.next() yields to the reader in one run.
MaxFrames == 2
\* Number of facade calls the caller makes in one run.
MaxCmds == 2

VARIABLES
    cpc,        \* connect(): "parse","open","auth","channels","spawn_writer",
                \*            "notify","returned","failed"
    wire,       \* frames handed to the write half of the socket, in order
                \* (whether or not the transport accepted them)
    rpc,        \* reader task: "unspawned","next","send","done"
    rpend,      \* the event the reader is sending (rpc = "send")
    rbreak,     \* TRUE when the reader breaks out of its loop after the send
    nread,      \* number of results read.next() has yielded
    rexit,      \* why the reader ended: "none","close","error","end"
    data_q,     \* event channel buffer (data_tx -> data_rx)
    rx_alive,   \* data_rx has not been dropped
    received,   \* events data_rx.recv() has returned to the caller
    eos,        \* data_rx.recv() has returned None
    wpc,        \* writer task: "unspawned","recv","write","done"
    wcur,       \* the command the writer has dequeued (wpc = "write")
    wexit,      \* why the writer ended: "none","disconnect","closed"
    wok,        \* result of the writer's last socket operation (discarded)
    cmd_q,      \* command channel buffer (cmd_tx -> cmd_rx)
    tx_alive,   \* the caller still holds cmd_tx
    callpc,     \* caller's facade call: "idle","sending","waiting"
    callcmd,    \* the command of the call in progress
    callalive,  \* the writer task was alive when the call in progress began
    sent,       \* commands whose send returned Ok, in order
    nerr,       \* number of facade calls that returned Err
    dec_in,     \* the envelope handed to parse_market_data
    dec_out     \* the event parse_market_data returned for it

vars == <<cpc, wire, rpc, rpend, rbreak, nread, rexit, data_q, rx_alive, received,
          eos, wpc, wcur, wexit, wok, cmd_q, tx_alive, callpc, callcmd,
          callalive, sent,
          nerr, dec_in, dec_out>>

\* ------------------------------------------------------------ data model
\* Option<T>: None and Some(v).
None == [some |-> FALSE, val |-> 0]
Some(v) == [some |-> TRUE, val |-> v]
UnwrapOr(o, d) == IF o.some THEN o.val ELSE d

\* WsInstrument values the caller uses.
InstA == "NSE:RELIANCE"
InstB == "NSE:TCS"

\* WsCommand
Cmd(op, instruments) == [op |-> op, instruments |-> instruments]
NoCmd == Cmd("-", <<>>)
Disconnect == Cmd("Disconnect", <<>>)

\* The commands the caller issues in the model.
Commands ==
    { Cmd("SubscribeLtp", <<InstA, InstB>>),
      Cmd("UnsubscribeLtp", <<InstA>>),
      Disconnect }

\* JSON value kinds.
JAbsent == "absent"
JNull   == "null"
JString == "string"
JInt    == "int"
JFloat  == "float"
JArray  == "array"

\* A JSON value found under a key: its kind and its text.
JVal(k, v) == [k |-> k, v |-> v]
Absent == JVal(JAbsent, "")
Null   == JVal(JNull, "null")

\* A payload object: the JSON value found under each key.  The keys stand for
\* the field types of the payload structs: exchange (String), ltp (f64),
\* volume and timestamp (i64), bids (Vec<DepthLevel>).
Payload(e, l, v, b, t) ==
    [exchange |-> e, ltp |-> l, volume |-> v, bids |-> b, timestamp |-> t]
NoPayload == Payload(Absent, Absent, Absent, Absent, Absent)

\* The data member of the envelope (serde_json::Value): a JSON object, a JSON
\* array or a scalar.
Obj(p)  == [shape |-> "object", obj |-> p, arr |-> <<>>]
Arr(s)  == [shape |-> "array", obj |-> NoPayload, arr |-> s]
Scalar  == [shape |-> "scalar", obj |-> NoPayload, arr |-> <<>>]

\* Vec<DepthLevel>: every level needs price (f64) and quantity (i64).
LevelLists == {"[]", "[{price:2500.0,quantity:10}]"}

\* serde's Option<String>, Option<f64>, Option<i64>, Option<Vec<_>> fields.
OkString(j) == j.k \in {JAbsent, JNull, JString}
OkF64(j)    == j.k \in {JAbsent, JNull, JInt, JFloat}
OkI64(j)    == j.k \in {JAbsent, JNull, JInt}
OkVec(j)    == j.k \in {JAbsent, JNull} \/ (j.k = JArray /\ j.v \in LevelLists)
\* A decoded optional field: null and absent both decode to None.
Field(j) == IF j.k \in {JAbsent, JNull} THEN Absent ELSE j
\* A decoded Option<f64>: a JSON integer is accepted and becomes a float.
FieldF64(j) == IF j.k = JInt THEN JVal(JFloat, j.v \o ".0") ELSE Field(j)

\* serde_json::from_value::<WsLtpData>: exchange, symbol, ltp, timestamp.
\* Unknown keys of an object are ignored.  The derived Deserialize also
\* accepts a JSON array holding exactly the struct's fields in declaration
\* order (serde_json hands Value::Array to visit_seq).
LtpOf(e, l, t) ==
    IF OkString(e) /\ OkF64(l) /\ OkI64(t)
    THEN Some(Payload(Field(e), FieldF64(l), Absent, Absent, Field(t)))
    ELSE None
FromValueLtp(d) ==
    CASE d.shape = "object" ->
             LtpOf(d.obj.exchange, d.obj.ltp, d.obj.timestamp)
      [] d.shape = "array" ->
             IF Len(d.arr) = 3 THEN LtpOf(d.arr[1], d.arr[2], d.arr[3])
             ELSE None
      [] OTHER -> None

\* Mutant: the quote decoder fills volume from the ltp member.
QuoteOf_VolumeFromLtp(e, l, v, t) ==
    IF OkString(e) /\ OkF64(l) /\ OkI64(v) /\ OkI64(t)
    THEN Some(Payload(Field(e), FieldF64(l), Field(l), Absent, Field(t)))
    ELSE None

\* serde_json::from_value::<WsQuoteData>: adds open..close and volume.
QuoteOf(e, l, v, t) ==
    IF OkString(e) /\ OkF64(l) /\ OkI64(v) /\ OkI64(t)
    THEN Some(Payload(Field(e), FieldF64(l), Field(v), Absent, Field(t)))
    ELSE None
FromValueQuote(d) ==
    CASE d.shape = "object" ->
             QuoteOf(d.obj.exchange, d.obj.ltp, d.obj.volume, d.obj.timestamp)
      [] d.shape = "array" ->
             IF Len(d.arr) = 4
             THEN QuoteOf(d.arr[1], d.arr[2], d.arr[3], d.arr[4])
             ELSE None
      [] OTHER -> None

\* serde_json::from_value::<WsDepthData>: adds bids and asks.
DepthOf(e, l, v, b, t) ==
    IF OkString(e) /\ OkF64(l) /\ OkI64(v) /\ OkVec(b) /\ OkI64(t)
    THEN Some(Payload(Field(e), FieldF64(l), Field(v), Field(b), Field(t)))
    ELSE None
FromValueDepth(d) ==
    CASE d.shape = "object" ->
             DepthOf(d.obj.exchange, d.obj.ltp, d.obj.volume, d.obj.bids,
                     d.obj.timestamp)
      [] d.shape = "array" ->
             IF Len(d.arr) = 5
             THEN DepthOf(d.arr[1], d.arr[2], d.arr[3], d.arr[4], d.arr[5])
             ELSE None
      [] OTHER -> None

\* WsData, with the position in the inbound stream of the frame it was
\* derived from (src = 0: not derived from a frame).
Event(kind, msg, payload, src) ==
    [kind |-> kind, msg |-> msg, payload |-> payload, src |-> src]
NoEvent == Event("-", "", NoPayload, 0)
Connected == Event("Connected", "", NoPayload, 0)
DataKinds == {"Ltp", "Quote", "Depth"}

\* WsMarketDataMessage: mode is Option<i32>, data is Option<Value> (a JSON
\* null and a missing member both give None).
Envelope(mode, data) == [mode |-> mode, data |-> data]

\* format!("{}", mode) of an i32: decimal digits, "-" before a negative one.
Digits == <<"0", "1", "2", "3", "4", "5", "6", "7", "8", "9">>
RECURSIVE NatText(_)
NatText(n) ==
    IF n < 10 THEN Digits[n + 1]
    ELSE NatText(n \div 10) \o Digits[(n % 10) + 1]
\* Mutant: the sign of the mode is not printed.
ModeText_NoSign(m) == IF m < 0 THEN NatText(0 - m) ELSE NatText(m)
ModeText(m) == IF m < 0 THEN "-" \o NatText(0 - m) ELSE NatText(m)

\* parse_market_data
parse_market_data(msg, src) ==
    LET mode == UnwrapOr(msg.mode, 0)
    IN CASE mode = 1 ->
              IF msg.data.some /\ FromValueLtp(msg.data.val).some
              THEN Event("Ltp", "", FromValueLtp(msg.data.val).val, src)
              ELSE Event("Error", "Failed to parse LTP data", NoPayload, src)
         [] mode = 2 ->
              IF msg.data.some /\ FromValueQuote(msg.data.val).some
              THEN Event("Quote", "", FromValueQuote(msg.data.val).val, src)
              ELSE Event("Error", "Failed to parse Quote data", NoPayload, src)
         [] mode = 3 ->
              IF msg.data.some /\ FromValueDepth(msg.data.val).some
              THEN Event("Depth", "", FromValueDepth(msg.data.val).val, src)
              ELSE Event("Error", "Failed to parse Depth data", NoPayload, src)
         [] OTHER ->
              Event("Error", "Unknown mode: " \o ModeText(mode), NoPayload, src)

\* What read.next() can yield.  A text frame either deserializes into the
\* envelope (env = Some) or does not (env = None).
Msg(kind, env) == [kind |-> kind, env |-> env]
NoData == [some |-> FALSE, val |-> Scalar]
NoEnv == [some |-> FALSE, val |-> Envelope(None, NoData)]
Text(mode, data) == Msg("text", [some |-> TRUE, val |-> Envelope(mode, data)])

GoodPayload ==
    Payload(JVal(JString, "NSE"), JVal(JFloat, "2500.5"), JVal(JInt, "100"),
            JVal(JArray, "[{price:2500.0,quantity:10}]"),
            JVal(JInt, "1700000000"))
BadPayload ==
    Payload(JVal(JString, "NSE"), JVal(JString, "2500.5"), JVal(JInt, "100"),
            JVal(JArray, "[{price:2500.0,quantity:10}]"),
            JVal(JInt, "1700000000"))
DataOf(d) == [some |-> TRUE, val |-> d]

\* The text frames stand for the two outcomes of the codec the reader can
\* see, a data event and an Error event; CodecSpec covers the codec itself.
ServerMessages ==
    { Text(Some(1), DataOf(Obj(GoodPayload))),  \* LTP tick
      Text(Some(1), DataOf(Obj(BadPayload))),   \* ltp is a string
      Msg("text", NoEnv),                   \* not the envelope shape
      Msg("other", NoEnv),                  \* binary, ping, pong, frame
      Msg("close", NoEnv),                  \* close frame
      Msg("err", NoEnv),                    \* Err(e) from the transport
      Msg("end", NoEnv) }                   \* the stream ended (None)

\* Frames handed to the socket's write half.
Frame(kind, action, mode, symbols) ==
    [kind |-> kind, action |-> action, mode |-> mode, symbols |-> symbols]
AuthFrame == Frame("auth", "authenticate", "", <<>>)
CloseFrame == Frame("close", "", "", <<>>)

\* create_subscribe_message: serializing the struct cannot fail, so the
\* Option it returns is always Some.
create_subscribe_message(action, mode, instruments) ==
    Frame("text", action, mode, instruments)

\* Mutant: the UnsubscribeDepth arm was copied from the quote arm.
RenderCommand_CopiedArm(cmd) ==
    CASE cmd.op = "SubscribeLtp" ->
             create_subscribe_message("subscribe", "ltp", cmd.instruments)
      [] cmd.op = "UnsubscribeLtp" ->
             create_subscribe_message("unsubscribe", "ltp", cmd.instruments)
      [] cmd.op = "SubscribeQuote" ->
             create_subscribe_message("subscribe", "quote", cmd.instruments)
      [] cmd.op = "UnsubscribeQuote" ->
             create_subscribe_message("unsubscribe", "quote", cmd.instruments)
      [] cmd.op = "SubscribeDepth" ->
             create_subscribe_message("subscribe", "depth", cmd.instruments)
      [] cmd.op = "UnsubscribeDepth" ->
             create_subscribe_message("unsubscribe", "quote", cmd.instruments)
      [] OTHER -> CloseFrame

\* The match of the writer task on the command.
RenderCommand(cmd) ==
    CASE cmd.op = "SubscribeLtp" ->
             create_subscribe_message("subscribe", "ltp", cmd.instruments)
      [] cmd.op = "UnsubscribeLtp" ->
             create_subscribe_message("unsubscribe", "ltp", cmd.instruments)
      [] cmd.op = "SubscribeQuote" ->
             create_subscribe_message("subscribe", "quote", cmd.instruments)
      [] cmd.op = "UnsubscribeQuote" ->
             create_subscribe_message("unsubscribe", "quote", cmd.instruments)
      [] cmd.op = "SubscribeDepth" ->
             create_subscribe_message("subscribe", "depth", cmd.instruments)
      [] cmd.op = "UnsubscribeDepth" ->
             create_subscribe_message("unsubscribe", "depth", cmd.instruments)
      [] OTHER -> CloseFrame

\* ------------------------------------------------------------- channels
\* mpsc::Sender::send on the event channel: FIFO append.
Enqueue(q, x) == Append(q, x)

\* Live senders of the event channel: connect's data_tx (from its creation
\* until connect returns) and the reader's data_tx_clone.
DataTxAlive == cpc \in {"spawn_writer", "notify"}
DataTxCloneAlive == rpc \in {"next", "send"}

\* The command channel is closed for senders once cmd_rx is dropped, which
\* happens when the writer task ends.
CmdClosed == wpc = "done"

InitProgram ==
    /\ cpc = "parse"
    /\ wire = <<>>
    /\ rpc = "unspawned"
    /\ rpend = NoEvent
    /\ rbreak = FALSE
    /\ nread = 0
    /\ rexit = "none"
    /\ data_q = <<>>
    /\ rx_alive = TRUE
    /\ received = <<>>
    /\ eos = FALSE
    /\ wpc = "unspawned"
    /\ wcur = NoCmd
    /\ wexit = "none"
    /\ wok = TRUE
    /\ cmd_q = <<>>
    /\ tx_alive = TRUE
    /\ callpc = "idle"
    /\ callcmd = NoCmd
    /\ callalive = FALSE
    /\ sent = <<>>
    /\ nerr = 0

\* The state after construction; no envelope has been handed to the codec.
Init ==
    /\ InitProgram
    /\ dec_in = Envelope(None, NoData)
    /\ dec_out = NoEvent

codecVars == <<dec_in, dec_out>>
programVars ==
    <<cpc, wire, rpc, rpend, rbreak, nread, rexit, data_q, rx_alive, received,
      eos, wpc, wcur, wexit, wok, cmd_q, tx_alive, callpc, callcmd, callalive,
      sent, nerr>>
readerVars == <<rpc, rpend, rbreak, nread, rexit>>
writerVars == <<wpc, wcur, wexit, wok>>
callerVars == <<callpc, callcmd, callalive, sent, nerr, tx_alive>>
recvVars == <<received, eos, rx_alive>>


\* ------------------------------------------------------------- connect()
\* Url::parse(&self.ws_url)?
ConnectParse ==
    /\ cpc = "parse"
    /\ \E ok \in BOOLEAN : cpc' = IF ok THEN "open" ELSE "failed"
    /\ UNCHANGED <<wire, data_q, cmd_q>>
    /\ UNCHANGED <<readerVars, writerVars, callerVars, recvVars>>
    /\ UNCHANGED codecVars

\* connect_async(url).await.map_err(..)?
ConnectOpen ==
    /\ cpc = "open"
    /\ \E ok \in BOOLEAN : cpc' = IF ok THEN "auth" ELSE "failed"
    /\ UNCHANGED <<wire, data_q, cmd_q>>
    /\ UNCHANGED <<readerVars, writerVars, callerVars, recvVars>>
    /\ UNCHANGED codecVars

\* Mutant: the reader task is spawned before the result of the
\* authentication write is examined.
ConnectAuth_SpawnsFirst ==
    /\ cpc = "auth"
    /\ \E ok \in BOOLEAN :
         /\ wire' = Append(wire, AuthFrame)
         /\ cpc' = IF ok THEN "spawn_writer" ELSE "failed"
    /\ rpc' = "next"
    /\ UNCHANGED <<rpend, rbreak, nread, rexit, data_q, cmd_q>>
    /\ UNCHANGED <<writerVars, callerVars, recvVars>>
    /\ UNCHANGED codecVars

\* Mutant: the authentication frame is never written.
ConnectAuth_NoFrame ==
    /\ cpc = "auth"
    /\ \E ok \in BOOLEAN : cpc' = IF ok THEN "channels" ELSE "failed"
    /\ UNCHANGED <<wire, data_q, cmd_q>>
    /\ UNCHANGED <<readerVars, writerVars, callerVars, recvVars>>
    /\ UNCHANGED codecVars

\* write.send(Message::Text(auth_json)).await.map_err(..)?
ConnectAuth ==
    /\ cpc = "auth"
    /\ \E ok \in BOOLEAN :
         /\ wire' = Append(wire, AuthFrame)
         /\ cpc' = IF ok THEN "channels" ELSE "failed"
    /\ UNCHANGED <<data_q, cmd_q>>
    /\ UNCHANGED <<readerVars, writerVars, callerVars, recvVars>>
    /\ UNCHANGED codecVars

\* The two mpsc::channel calls and the tokio::spawn of the reader task.
ConnectSpawnReader ==
    /\ cpc = "channels"
    /\ cpc' = "spawn_writer"
    /\ rpc' = "next"
    /\ UNCHANGED <<wire, rpend, rbreak, nread, rexit, data_q, cmd_q>>
    /\ UNCHANGED <<writerVars, callerVars, recvVars>>
    /\ UNCHANGED codecVars

\* The tokio::spawn of the writer task.
ConnectSpawnWriter ==
    /\ cpc = "spawn_writer"
    /\ cpc' = "notify"
    /\ wpc' = "recv"
    /\ UNCHANGED <<wire, wcur, wexit, wok, data_q, cmd_q>>
    /\ UNCHANGED <<readerVars, callerVars, recvVars>>
    /\ UNCHANGED codecVars

\* Mutant: connect announces the connection twice.
ConnectNotify_Twice ==
    /\ cpc = "notify"
    /\ Len(data_q) < DataCap
    /\ data_q' = Enqueue(Enqueue(data_q, Connected), Connected)
    /\ cpc' = "returned"
    /\ UNCHANGED <<wire, cmd_q>>
    /\ UNCHANGED <<readerVars, writerVars, callerVars, recvVars>>
    /\ UNCHANGED codecVars

\* data_tx.send(WsData::Connected).await, then Ok((cmd_tx, data_rx)).  The
\* send suspends while the event channel is full; connect still holds
\* data_rx, so the channel cannot be closed here.
ConnectNotify ==
    /\ cpc = "notify"
    /\ Len(data_q) < DataCap
    /\ data_q' = Enqueue(data_q, Connected)
    /\ cpc' = "returned"
    /\ UNCHANGED <<wire, cmd_q>>
    /\ UNCHANGED <<readerVars, writerVars, callerVars, recvVars>>
    /\ UNCHANGED codecVars

\* Mutant: a frame that carries no market data is reported as an error and
\* ends the reader.
ReaderMatch_NoiseIsError(m, src) ==
    CASE m.kind = "text" /\ m.env.some ->
             [send |-> TRUE, ev |-> parse_market_data(m.env.val, src),
              brk |-> FALSE, done |-> FALSE]
      [] m.kind = "close" ->
             [send |-> TRUE, ev |-> Event("Disconnected", "", NoPayload, src),
              brk |-> TRUE, done |-> FALSE]
      [] m.kind = "err" ->
             [send |-> TRUE, ev |-> Event("Error", "transport", NoPayload, src),
              brk |-> TRUE, done |-> FALSE]
      [] m.kind = "end" ->
             [send |-> FALSE, ev |-> NoEvent, brk |-> FALSE, done |-> TRUE]
      [] OTHER ->
             [send |-> TRUE, ev |-> Event("Error", "unexpected", NoPayload, src),
              brk |-> TRUE, done |-> FALSE]

\* ------------------------------------------------------------ reader task
\* Mutant: a decode failure ends the reader like a transport error does.
ReaderMatch_BreakOnError(m, src) ==
    CASE m.kind = "text" /\ m.env.some ->
             [send |-> TRUE, ev |-> parse_market_data(m.env.val, src),
              brk |-> parse_market_data(m.env.val, src).kind = "Error",
              done |-> FALSE]
      [] m.kind = "close" ->
             [send |-> TRUE, ev |-> Event("Disconnected", "", NoPayload, src),
              brk |-> TRUE, done |-> FALSE]
      [] m.kind = "err" ->
             [send |-> TRUE, ev |-> Event("Error", "transport", NoPayload, src),
              brk |-> TRUE, done |-> FALSE]
      [] m.kind = "end" ->
             [send |-> FALSE, ev |-> NoEvent, brk |-> FALSE, done |-> TRUE]
      [] OTHER ->
             [send |-> FALSE, ev |-> NoEvent, brk |-> FALSE, done |-> FALSE]

\* Mutant: the reader answers a close frame with an Error event.
ReaderMatch_CloseAsError(m, src) ==
    CASE m.kind = "text" /\ m.env.some ->
             [send |-> TRUE, ev |-> parse_market_data(m.env.val, src),
              brk |-> FALSE, done |-> FALSE]
      [] m.kind = "close" ->
             [send |-> TRUE, ev |-> Event("Error", "closed", NoPayload, src),
              brk |-> TRUE, done |-> FALSE]
      [] m.kind = "err" ->
             [send |-> TRUE, ev |-> Event("Error", "transport", NoPayload, src),
              brk |-> TRUE, done |-> FALSE]
      [] m.kind = "end" ->
             [send |-> FALSE, ev |-> NoEvent, brk |-> FALSE, done |-> TRUE]
      [] OTHER ->
             [send |-> FALSE, ev |-> NoEvent, brk |-> FALSE, done |-> FALSE]

\* Mutant: the reader reports a close frame and keeps reading.
ReaderMatch_CloseContinues(m, src) ==
    CASE m.kind = "text" /\ m.env.some ->
             [send |-> TRUE, ev |-> parse_market_data(m.env.val, src),
              brk |-> FALSE, done |-> FALSE]
      [] m.kind = "close" ->
             [send |-> TRUE, ev |-> Event("Disconnected", "", NoPayload, src),
              brk |-> FALSE, done |-> FALSE]
      [] m.kind = "err" ->
             [send |-> TRUE, ev |-> Event("Error", "transport", NoPayload, src),
              brk |-> TRUE, done |-> FALSE]
      [] m.kind = "end" ->
             [send |-> FALSE, ev |-> NoEvent, brk |-> FALSE, done |-> TRUE]
      [] OTHER ->
             [send |-> FALSE, ev |-> NoEvent, brk |-> FALSE, done |-> FALSE]

\* Mutant: the reader reports a transport error and keeps reading.
ReaderMatch_ErrorContinues(m, src) ==
    CASE m.kind = "text" /\ m.env.some ->
             [send |-> TRUE, ev |-> parse_market_data(m.env.val, src),
              brk |-> FALSE, done |-> FALSE]
      [] m.kind = "close" ->
             [send |-> TRUE, ev |-> Event("Disconnected", "", NoPayload, src),
              brk |-> TRUE, done |-> FALSE]
      [] m.kind = "err" ->
             [send |-> TRUE, ev |-> Event("Error", "transport", NoPayload, src),
              brk |-> FALSE, done |-> FALSE]
      [] m.kind = "end" ->
             [send |-> FALSE, ev |-> NoEvent, brk |-> FALSE, done |-> TRUE]
      [] OTHER ->
             [send |-> FALSE, ev |-> NoEvent, brk |-> FALSE, done |-> FALSE]

\* The event and loop exit the reader derives from one result of read.next().
\* send = FALSE: nothing is sent.
ReaderMatch(m, src) ==
    CASE m.kind = "text" /\ m.env.some ->
             [send |-> TRUE, ev |-> parse_market_data(m.env.val, src),
              brk |-> FALSE, done |-> FALSE]
      [] m.kind = "close" ->
             [send |-> TRUE, ev |-> Event("Disconnected", "", NoPayload, src),
              brk |-> TRUE, done |-> FALSE]
      [] m.kind = "err" ->
             [send |-> TRUE, ev |-> Event("Error", "transport", NoPayload, src),
              brk |-> TRUE, done |-> FALSE]
      [] m.kind = "end" ->
             [send |-> FALSE, ev |-> NoEvent, brk |-> FALSE, done |-> TRUE]
      [] OTHER ->
             [send |-> FALSE, ev |-> NoEvent, brk |-> FALSE, done |-> FALSE]

\* while let Some(msg) = read.next().await { match msg { .. } }
ReaderNext ==
    /\ rpc = "next"
    /\ nread < MaxFrames
    /\ \E m \in ServerMessages :
         LET r == ReaderMatch(m, nread + 1)
         IN /\ rpend' = r.ev
            /\ rbreak' = r.brk
            /\ rpc' = IF r.done THEN "done" ELSE IF r.send THEN "send" ELSE "next"
            /\ rexit' = IF r.done THEN "end" ELSE rexit
    /\ nread' = nread + 1
    /\ UNCHANGED <<cpc, wire, data_q, cmd_q>>
    /\ UNCHANGED <<writerVars, callerVars, recvVars>>
    /\ UNCHANGED codecVars

\* The writer task has closed the socket: write.close() returned Ok.
ClosedByWriter == wexit = "disconnect" /\ wok

\* The server answers the writer's close frame: read.next() yields the close
\* frame of the closing handshake.  The answer is not counted in MaxFrames,
\* which bounds what the server sends of its own accord.
ReaderCloseReply ==
    /\ rpc = "next"
    /\ ClosedByWriter
    /\ LET r == ReaderMatch(Msg("close", NoEnv), nread + 1)
       IN /\ rpend' = r.ev
          /\ rbreak' = r.brk
          /\ rpc' = IF r.done THEN "done" ELSE IF r.send THEN "send" ELSE "next"
          /\ rexit' = IF r.done THEN "end" ELSE rexit
    /\ nread' = nread + 1
    /\ UNCHANGED <<cpc, wire, data_q, cmd_q>>
    /\ UNCHANGED <<writerVars, callerVars, recvVars>>
    /\ UNCHANGED codecVars

\* Mutant: the event is put at the head of the channel.
ReaderSend_Front ==
    /\ rpc = "send"
    /\ \/ ~rx_alive /\ UNCHANGED data_q
       \/ rx_alive /\ Len(data_q) < DataCap /\ data_q' = <<rpend>> \o data_q
    /\ rpc' = IF rbreak THEN "done" ELSE "next"
    /\ rexit' = IF ~rbreak THEN rexit
                ELSE IF rpend.kind = "Disconnected" THEN "close" ELSE "error"
    /\ rpend' = NoEvent
    /\ rbreak' = FALSE
    /\ UNCHANGED <<cpc, wire, nread, cmd_q>>
    /\ UNCHANGED <<writerVars, callerVars, recvVars>>
    /\ UNCHANGED codecVars

\* Mutant: when the channel is full the event is discarded (try_send).
ReaderSend_DropWhenFull ==
    /\ rpc = "send"
    /\ \/ ~rx_alive /\ UNCHANGED data_q
       \/ rx_alive /\ Len(data_q) < DataCap /\ data_q' = Enqueue(data_q, rpend)
       \/ rx_alive /\ Len(data_q) >= DataCap /\ UNCHANGED data_q
    /\ rpc' = IF rbreak THEN "done" ELSE "next"
    /\ rexit' = IF ~rbreak THEN rexit
                ELSE IF rpend.kind = "Disconnected" THEN "close" ELSE "error"
    /\ rpend' = NoEvent
    /\ rbreak' = FALSE
    /\ UNCHANGED <<cpc, wire, nread, cmd_q>>
    /\ UNCHANGED <<writerVars, callerVars, recvVars>>
    /\ UNCHANGED codecVars

\* let _ = data_tx_clone.send(..).await; the result is discarded.  The send
\* fails at once when data_rx is gone and suspends while the channel is full.
ReaderSend ==
    /\ rpc = "send"
    /\ \/ ~rx_alive /\ UNCHANGED data_q
       \/ rx_alive /\ Len(data_q) < DataCap /\ data_q' = Enqueue(data_q, rpend)
    /\ rpc' = IF rbreak THEN "done" ELSE "next"
    /\ rexit' = IF ~rbreak THEN rexit
                ELSE IF rpend.kind = "Disconnected" THEN "close" ELSE "error"
    /\ rpend' = NoEvent
    /\ rbreak' = FALSE
    /\ UNCHANGED <<cpc, wire, nread, cmd_q>>
    /\ UNCHANGED <<writerVars, callerVars, recvVars>>
    /\ UNCHANGED codecVars

\* ------------------------------------------------------------ writer task
\* Mutant: a queued Disconnect is taken ahead of the commands before it.
WriterRecv_DisconnectFirst ==
    /\ wpc = "recv"
    /\ cmd_q # <<>>
    /\ IF \E i \in DOMAIN cmd_q : cmd_q[i] = Disconnect
       THEN /\ wcur' = Disconnect
            /\ cmd_q' = SelectSeq(cmd_q, LAMBDA c : c # Disconnect)
       ELSE /\ wcur' = Head(cmd_q)
            /\ cmd_q' = Tail(cmd_q)
    /\ wpc' = "write"
    /\ UNCHANGED <<cpc, wire, wexit, wok, data_q>>
    /\ UNCHANGED <<readerVars, callerVars, recvVars>>
    /\ UNCHANGED codecVars

\* Mutant: the writer takes the newest buffered command.
WriterRecv_Newest ==
    /\ wpc = "recv"
    /\ cmd_q # <<>>
    /\ wcur' = cmd_q[Len(cmd_q)]
    /\ cmd_q' = SubSeq(cmd_q, 1, Len(cmd_q) - 1)
    /\ wpc' = "write"
    /\ UNCHANGED <<cpc, wire, wexit, wok, data_q>>
    /\ UNCHANGED <<readerVars, callerVars, recvVars>>
    /\ UNCHANGED codecVars

\* cmd_rx.recv().await yields Some(cmd).
WriterRecv ==
    /\ wpc = "recv"
    /\ cmd_q # <<>>
    /\ wcur' = Head(cmd_q)
    /\ cmd_q' = Tail(cmd_q)
    /\ wpc' = "write"
    /\ UNCHANGED <<cpc, wire, wexit, wok, data_q>>
    /\ UNCHANGED <<readerVars, callerVars, recvVars>>
    /\ UNCHANGED codecVars

\* Mutant: the writer closes the socket when the command channel is closed.
WriterRecvNone_ClosesSocket ==
    /\ wpc = "recv"
    /\ cmd_q = <<>>
    /\ ~tx_alive
    /\ wire' = Append(wire, CloseFrame)
    /\ wpc' = "done"
    /\ wexit' = "closed"
    /\ UNCHANGED <<cpc, wcur, wok, data_q, cmd_q>>
    /\ UNCHANGED <<readerVars, callerVars, recvVars>>
    /\ UNCHANGED codecVars

\* Mutant: the writer task also ends when it finds the reader task stopped.
WriterRecvNone_WhenReaderStopped ==
    /\ wpc = "recv"
    /\ \/ cmd_q = <<>> /\ ~tx_alive
       \/ rpc = "done"
    /\ wpc' = "done"
    /\ wexit' = "closed"
    /\ cmd_q' = <<>>
    /\ UNCHANGED <<cpc, wire, wcur, wok, data_q>>
    /\ UNCHANGED <<readerVars, callerVars, recvVars>>
    /\ UNCHANGED codecVars

\* Mutant: the writer ends as soon as the senders are gone and discards what
\* is still queued.
WriterRecvNone_DropsQueued ==
    /\ wpc = "recv"
    /\ ~tx_alive
    /\ wpc' = "done"
    /\ wexit' = "closed"
    /\ cmd_q' = <<>>
    /\ UNCHANGED <<cpc, wire, wcur, wok, data_q>>
    /\ UNCHANGED <<readerVars, callerVars, recvVars>>
    /\ UNCHANGED codecVars

\* cmd_rx.recv().await yields None: the buffer is empty and every sender is
\* dropped.  The loop ends; nothing is written.
WriterRecvNone ==
    /\ wpc = "recv"
    /\ cmd_q = <<>>
    /\ ~tx_alive
    /\ wpc' = "done"
    /\ wexit' = "closed"
    /\ UNCHANGED <<cpc, wire, wcur, wok, data_q, cmd_q>>
    /\ UNCHANGED <<readerVars, callerVars, recvVars>>
    /\ UNCHANGED codecVars

\* Mutant: a failed socket write ends the writer task.
WriterWrite_FailStops ==
    /\ wpc = "write"
    /\ wire' = Append(wire, RenderCommand(wcur))
    /\ wok' \in BOOLEAN
    /\ IF wcur = Disconnect
       THEN wpc' = "done" /\ wexit' = "disconnect" /\ cmd_q' = <<>>
       ELSE IF wok'
            THEN wpc' = "recv" /\ UNCHANGED <<wexit, cmd_q>>
            ELSE wpc' = "done" /\ wexit' = "failed" /\ cmd_q' = <<>>
    /\ wcur' = NoCmd
    /\ UNCHANGED <<cpc, data_q>>
    /\ UNCHANGED <<readerVars, callerVars, recvVars>>
    /\ UNCHANGED codecVars

\* Mutant: the writer does not break after closing the socket.
WriterWrite_NoBreak ==
    /\ wpc = "write"
    /\ wire' = Append(wire, RenderCommand(wcur))
    /\ wok' \in BOOLEAN
    /\ wpc' = "recv"
    /\ wcur' = NoCmd
    /\ UNCHANGED <<cpc, data_q, wexit, cmd_q>>
    /\ UNCHANGED <<readerVars, callerVars, recvVars>>
    /\ UNCHANGED codecVars

\* The body of the loop for the dequeued command: Disconnect closes the
\* socket and breaks; the others are rendered and sent.  Either result of
\* the socket operation is discarded.  Leaving the loop drops cmd_rx, which
\* discards what is still buffered.
WriterWrite ==
    /\ wpc = "write"
    /\ wire' = Append(wire, RenderCommand(wcur))
    /\ wok' \in BOOLEAN
    /\ IF wcur = Disconnect
       THEN wpc' = "done" /\ wexit' = "disconnect" /\ cmd_q' = <<>>
       ELSE wpc' = "recv" /\ UNCHANGED <<wexit, cmd_q>>
    /\ wcur' = NoCmd
    /\ UNCHANGED <<cpc, data_q>>
    /\ UNCHANGED <<readerVars, callerVars, recvVars>>
    /\ UNCHANGED codecVars

\* ----------------------------------------------------------------- caller
\* A WsSubscriber method is called: self.cmd_tx.send(cmd) starts.
CallStart(cmd) ==
    /\ cpc = "returned"
    /\ callpc = "idle"
    /\ tx_alive
    /\ Len(sent) + nerr < MaxCmds
    /\ callpc' = "sending"
    /\ callcmd' = cmd
    /\ callalive' = (wpc \in {"recv", "write"})
    /\ UNCHANGED <<cpc, wire, data_q, cmd_q, sent, nerr, tx_alive>>
    /\ UNCHANGED <<readerVars, writerVars, recvVars>>
    /\ UNCHANGED codecVars

\* Mutant: the command channel takes a command even when it is full.
CallComplete_Unbounded ==
    /\ callpc \in {"sending", "waiting"}
    /\ \/ /\ CmdClosed
          /\ nerr' = nerr + 1
          /\ UNCHANGED <<cmd_q, sent>>
       \/ /\ ~CmdClosed
          /\ cmd_q' = Append(cmd_q, callcmd)
          /\ sent' = Append(sent, callcmd)
          /\ UNCHANGED nerr
    /\ callpc' = "idle"
    /\ callcmd' = NoCmd
    /\ callalive' = FALSE
    /\ UNCHANGED <<cpc, wire, data_q, tx_alive>>
    /\ UNCHANGED <<readerVars, writerVars, recvVars>>
    /\ UNCHANGED codecVars

\* Mutant: the send does not notice that the channel is closed.
CallComplete_IgnoresClosed ==
    /\ callpc \in {"sending", "waiting"}
    /\ Len(cmd_q) < CmdCap
    /\ cmd_q' = Append(cmd_q, callcmd)
    /\ sent' = Append(sent, callcmd)
    /\ UNCHANGED nerr
    /\ callpc' = "idle"
    /\ callcmd' = NoCmd
    /\ callalive' = FALSE
    /\ UNCHANGED <<cpc, wire, data_q, tx_alive>>
    /\ UNCHANGED <<readerVars, writerVars, recvVars>>
    /\ UNCHANGED codecVars

\* Mutant: the send also fails once the reader has seen the socket close.
CallComplete_FailsOnSocketClose ==
    /\ callpc \in {"sending", "waiting"}
    /\ \/ /\ CmdClosed \/ rexit \in {"close", "error"}
          /\ nerr' = nerr + 1
          /\ UNCHANGED <<cmd_q, sent>>
       \/ /\ ~CmdClosed /\ rexit \notin {"close", "error"}
          /\ Len(cmd_q) < CmdCap
          /\ cmd_q' = Append(cmd_q, callcmd)
          /\ sent' = Append(sent, callcmd)
          /\ UNCHANGED nerr
    /\ callpc' = "idle"
    /\ callcmd' = NoCmd
    /\ callalive' = FALSE
    /\ UNCHANGED <<cpc, wire, data_q, tx_alive>>
    /\ UNCHANGED <<readerVars, writerVars, recvVars>>
    /\ UNCHANGED codecVars

\* .send(cmd).await.map_err(..): Err when the channel is closed, Ok once the
\* command is in the buffer; suspended while the buffer is full.
CallComplete ==
    /\ callpc \in {"sending", "waiting"}
    /\ \/ /\ CmdClosed
          /\ nerr' = nerr + 1
          /\ UNCHANGED <<cmd_q, sent>>
       \/ /\ ~CmdClosed
          /\ Len(cmd_q) < CmdCap
          /\ cmd_q' = Append(cmd_q, callcmd)
          /\ sent' = Append(sent, callcmd)
          /\ UNCHANGED nerr
    /\ callpc' = "idle"
    /\ callcmd' = NoCmd
    /\ callalive' = FALSE
    /\ UNCHANGED <<cpc, wire, data_q, tx_alive>>
    /\ UNCHANGED <<readerVars, writerVars, recvVars>>
    /\ UNCHANGED codecVars

\* The caller drops the WsSubscriber (the only cmd_tx).
DropSender ==
    /\ cpc = "returned"
    /\ callpc = "idle"
    /\ tx_alive
    /\ tx_alive' = FALSE
    /\ UNCHANGED <<cpc, wire, data_q, cmd_q, callpc, callcmd, callalive, sent,
                   nerr>>
    /\ UNCHANGED <<readerVars, writerVars, recvVars>>
    /\ UNCHANGED codecVars

\* data_rx.recv().await yields Some(event).
Recv ==
    /\ cpc = "returned"
    /\ rx_alive
    /\ data_q # <<>>
    /\ received' = Append(received, Head(data_q))
    /\ data_q' = Tail(data_q)
    /\ UNCHANGED <<cpc, wire, cmd_q, eos, rx_alive>>
    /\ UNCHANGED <<readerVars, writerVars, callerVars>>
    /\ UNCHANGED codecVars

\* Mutant: the end of the stream also waits for the writer task to end.
RecvNone_WaitsForWriter ==
    /\ cpc = "returned"
    /\ rx_alive
    /\ ~eos
    /\ data_q = <<>>
    /\ ~DataTxAlive
    /\ ~DataTxCloneAlive
    /\ wpc = "done"
    /\ eos' = TRUE
    /\ UNCHANGED <<cpc, wire, cmd_q, data_q, received, rx_alive>>
    /\ UNCHANGED <<readerVars, writerVars, callerVars>>
    /\ UNCHANGED codecVars

\* data_rx.recv().await yields None: buffer empty, every sender dropped.
RecvNone ==
    /\ cpc = "returned"
    /\ rx_alive
    /\ ~eos
    /\ data_q = <<>>
    /\ ~DataTxAlive
    /\ ~DataTxCloneAlive
    /\ eos' = TRUE
    /\ UNCHANGED <<cpc, wire, cmd_q, data_q, received, rx_alive>>
    /\ UNCHANGED <<readerVars, writerVars, callerVars>>
    /\ UNCHANGED codecVars

\* The caller drops data_rx; what is buffered is discarded.
DropReceiver ==
    /\ cpc = "returned"
    /\ rx_alive
    /\ rx_alive' = FALSE
    /\ data_q' = <<>>
    /\ UNCHANGED <<cpc, wire, cmd_q, received, eos>>
    /\ UNCHANGED <<readerVars, writerVars, callerVars>>
    /\ UNCHANGED codecVars

Next ==
    \/ ConnectParse
    \/ ConnectOpen
    \/ ConnectAuth
    \/ ConnectSpawnReader
    \/ ConnectSpawnWriter
    \/ ConnectNotify
    \/ ReaderNext
    \/ ReaderCloseReply
    \/ ReaderSend
    \/ WriterRecv
    \/ WriterRecvNone
    \/ WriterWrite
    \/ \E cmd \in Commands : CallStart(cmd)
    \/ CallComplete
    \/ DropSender
    \/ Recv
    \/ RecvNone
    \/ DropReceiver

Spec == Init /\ [][Next]_vars

\* Scheduling: the runtime polls every task that can make progress, so each
\* step of connect, of the reader's send, of the writer and of a facade call
\* in progress is weakly fair.  What the server sends (ReaderNext) and what
\* the caller chooses to do are not.
Fairness ==
    /\ WF_vars(ConnectParse) /\ WF_vars(ConnectOpen) /\ WF_vars(ConnectAuth)
    /\ WF_vars(ConnectSpawnReader) /\ WF_vars(ConnectSpawnWriter)
    /\ WF_vars(ConnectNotify)
    /\ WF_vars(ReaderSend)
    /\ WF_vars(WriterRecv) /\ WF_vars(WriterRecvNone) /\ WF_vars(WriterWrite)
    /\ WF_vars(CallComplete)

FairSpec == Spec /\ Fairness

\* ------------------------------------------------------- derived notions
\* Every event enqueued on the event channel that the caller has received or
\* can still receive, in channel order.
History == received \o data_q

ReaderRunning == rpc \in {"next", "send"}
WriterRunning == wpc \in {"recv", "write"}

\* ------------------------------------------------------------------ C1
\* C1: after a successful connect(), the first event the caller receives
\* from the event receiver is Connected.
C1_FirstReceivedIsConnected ==
    received # <<>> => received[1] = Connected

\* ------------------------------------------------------------------ C2
\* C2: Disconnected is terminal on the event channel: once a Disconnected
\* event has been enqueued no further event is enqueued, i.e. a Disconnected
\* event is never followed by another event in the channel.
C2_DisconnectedIsLast ==
    \A i \in DOMAIN History :
        History[i].kind = "Disconnected" => i = Len(History)

\* ------------------------------------------------------------------ C3
\* C3: once the socket is open and the authentication frame has been sent,
\* connect() eventually returns the (command sender, event receiver) pair.
C3_ConnectEventuallyReturns ==
    (cpc = "channels") ~> (cpc = "returned")

\* ------------------------------------------------------------------ C4
\* C4: exactly one authentication frame is written per connection, it is the
\* first frame written, and it precedes every subscribe/unsubscribe frame
\* and the close.
C4_OneAuthFrameFirst ==
    /\ \A i \in DOMAIN wire : (wire[i].kind = "auth") <=> (i = 1)
    /\ cpc \in {"channels", "spawn_writer", "notify", "returned"}
           => wire # <<>> /\ wire[1] = AuthFrame
    /\ (rpc # "unspawned" \/ wpc # "unspawned") => wire # <<>>

\* A run where a subscribe frame and the close followed the authentication.
C4_Witness ==
    /\ Len(wire) = 3
    /\ wire[1] = AuthFrame
    /\ wire[2].kind = "text"
    /\ wire[3] = CloseFrame

\* ------------------------------------------------------------------ C5
\* The commands the writer has dequeued and not yet written, then the
\* buffered ones.
CmdPending == (IF wpc = "write" THEN <<wcur>> ELSE <<>>) \o cmd_q

\* C5: commands are applied to the socket in FIFO order: the frames written
\* after the authentication are, one per command and in sending order, the
\* frames of the first commands whose send returned Ok; the commands not yet
\* written wait in sending order.
C5_CommandsWrittenInOrder ==
    wire # <<>> =>
      LET k == Len(wire) - 1
      IN /\ k <= Len(sent)
         /\ \A i \in 1..k :
              /\ wire[i + 1].symbols = sent[i].instruments
              /\ wire[i + 1].kind =
                     IF sent[i] = Disconnect THEN "close" ELSE "text"
              /\ sent[i].op = "SubscribeLtp"
                     => wire[i + 1].action = "subscribe"
              /\ sent[i].op = "UnsubscribeLtp"
                     => wire[i + 1].action = "unsubscribe"
         /\ WriterRunning => CmdPending = SubSeq(sent, k + 1, Len(sent))

\* Subscribe(LTP, [A, B]) then Unsubscribe(LTP, [A]) were buffered together
\* and then both written.
C5_Witness ==
    /\ Len(wire) = 3
    /\ wire[2] = create_subscribe_message("subscribe", "ltp", <<InstA, InstB>>)
    /\ wire[3] = create_subscribe_message("unsubscribe", "ltp", <<InstA>>)

\* ------------------------------------------------------------------ C6
\* C6: events are delivered in wire order: the events derived from frames
\* appear on the event channel, and so reach the caller, in the order in
\* which the reader read their frames; the event the reader is sending comes
\* from a later frame than every event already on the channel.
C6_EventsInWireOrder ==
    /\ \A i, j \in DOMAIN History :
         (i < j /\ History[i].src > 0 /\ History[j].src > 0)
             => History[i].src < History[j].src
    /\ rpc = "send" =>
         \A i \in DOMAIN History : History[i].src < rpend.src

\* The caller received the events of two frames, the first one an LTP tick.
C6_Witness ==
    \E i, j \in DOMAIN received :
        /\ i < j
        /\ received[i].kind = "Ltp"
        /\ received[j].src > received[i].src

\* ------------------------------------------------------------------ C7
\* C7: once the writer has dequeued a Disconnect it closes the socket and
\* stops: the close is the last frame ever written, and no command behind
\* the first Disconnect is written, even when its send returned Ok.
C7_NothingWrittenAfterDisconnect ==
    /\ \A i \in DOMAIN wire : wire[i].kind = "close" => i = Len(wire)
    /\ \A i \in DOMAIN sent : sent[i] = Disconnect => Len(wire) - 1 <= i
    /\ wexit = "disconnect" => wpc = "done" /\ wire[Len(wire)] = CloseFrame

\* The writer stopped on a Disconnect while a command whose send returned Ok
\* was behind it.
C7_Witness ==
    /\ wexit = "disconnect"
    /\ Len(sent) = 2
    /\ sent[1] = Disconnect
    /\ sent[2] # Disconnect
    /\ Len(wire) = 2

\* ------------------------------------------------------------------ C8
\* C8 as stated: a facade call made while the writer task is alive returns
\* Ok, never an error.
C8_CallWhileWriterAliveReturnsOk ==
    [][ (callpc = "sending" /\ callalive /\ callpc' = "idle")
           => nerr' = nerr /\ sent' = Append(sent, callcmd) ]_vars

\* C8 amended: a facade call returns an error exactly when the writer task
\* has terminated by the time the send completes; a send that completes
\* while the writer is alive returns Ok and buffers the command.
C8_ErrIffWriterTerminated ==
    [][ (callpc = "sending" /\ callpc' = "idle") =>
          IF wpc = "done"
          THEN nerr' = nerr + 1 /\ sent' = sent /\ cmd_q' = cmd_q
          ELSE nerr' = nerr /\ sent' = Append(sent, callcmd)
               /\ cmd_q' = Append(cmd_q, callcmd) ]_vars

\* One call returned Ok and a later one, after the writer ended, an error.
C8_Witness ==
    /\ wpc = "done"
    /\ Len(sent) > 0
    /\ nerr > 0

\* ------------------------------------------------------------------ C9
ReaderSawSocketClose == rpc = "done" /\ rexit \in {"close", "error"}

DecodeError(e) == e.kind = "Error" /\ e.msg # "transport"

\* C10: a decode failure never tears down the connection: when the reader
\* has sent (or failed to send) the Error of a bad payload or of an unknown
\* mode, it goes back to reading frames; it has not ended.
C10_DecodeErrorKeepsReaderRunning ==
    [][ (rpc = "send" /\ DecodeError(rpend) /\ rpc' # "send")
           => rpc' = "next" /\ rexit' = "none" /\ nread' = nread ]_vars

\* After the Error of a malformed frame the caller received the typed event
\* of a later well-formed frame.
C10_Witness ==
    \E i, j \in DOMAIN received :
        /\ i < j
        /\ DecodeError(received[i])
        /\ received[j].kind = "Ltp"
        /\ received[j].payload = FromValueLtp(Obj(GoodPayload)).val

\* ------------------------------------------------------------------- C11
\* The events derived from inbound frames that exist at this moment, oldest
\* first: those the caller received, those buffered in the event channel and
\* the one the reader is sending.
IsFrameEvent(e) == e.src > 0
Pipeline ==
    SelectSeq(History, IsFrameEvent)
        \o (IF rpc = "send" THEN <<rpend>> ELSE <<>>)
IsPrefix(s, t) == Len(s) <= Len(t) /\ SubSeq(t, 1, Len(s)) = s
InReceived(s) == \E i \in DOMAIN received : received[i].src = s
InPipeline(s) == \E i \in DOMAIN Pipeline : Pipeline[i].src = s

\* A caller that holds the event receiver and keeps calling recv() on it.
ConsumingSpec == FairSpec /\ WF_vars(Recv)

\* C11: the reader never drops an event to relieve pressure.  While the event
\* receiver is alive, an event derived from a frame never disappears and no
\* frame yields two events; every text frame holding an envelope makes the
\* reader send exactly the decoded event; while it is sending the reader reads
\* no frame, and while the channel is full it stays suspended on that send;
\* and with a consuming caller every such event is eventually received.
C11_ReaderNeverDropsEvent ==
    /\ [][ /\ rx_alive' => IsPrefix(Pipeline, Pipeline')
           /\ \A i, j \in DOMAIN Pipeline' :
                  i < j => Pipeline'[i].src < Pipeline'[j].src
           /\ rpc = "send" => nread' = nread
           /\ (rpc = "send" /\ rx_alive /\ Len(data_q) >= DataCap)
                  => (rpc' = "send" /\ rpend' = rpend /\ rbreak' = rbreak)
           /\ \A m \in ServerMessages :
                  (m.kind = "text" /\ m.env.some)
                      => LET r == ReaderMatch(m, nread + 1)
                         IN /\ r.send /\ ~r.brk /\ ~r.done
                            /\ r.ev = parse_market_data(m.env.val, nread + 1)
         ]_vars
    /\ \A s \in 1..(MaxFrames + 1) :
           (InPipeline(s) /\ cpc = "returned")
               ~> (InReceived(s) \/ ~rx_alive)

\* Witness: the reader is suspended with a decoded tick on a full event
\* channel whose receiver the caller holds.
C11_Witness ==
    /\ rpc = "send" /\ rx_alive /\ cpc = "returned"
    /\ rpend.kind = "Ltp"
    /\ Len(data_q) = DataCap

\* ------------------------------------------------------------------- C12
\* The instrument lists a caller passes to the facade: empty, one, two in
\* either order, and the same instrument twice.
InstrumentLists ==
    { <<>>, <<InstA>>, <<InstA, InstB>>, <<InstB, InstA>>, <<InstA, InstA>> }
\* The six subscribe/unsubscribe methods of WsSubscriber, by the WsCommand
\* each sends.
FacadeOps ==
    { "SubscribeLtp", "UnsubscribeLtp", "SubscribeQuote", "UnsubscribeQuote",
      "SubscribeDepth", "UnsubscribeDepth" }
FacadeCommands ==
    { Cmd(op, l) : op \in FacadeOps, l \in InstrumentLists } \cup {Disconnect}

\* The facade and the writer task with every facade method and instrument
\* list; the server sends nothing and the caller leaves the event receiver
\* alone.
FacadeNext ==
    \/ ConnectParse
    \/ ConnectOpen
    \/ ConnectAuth
    \/ ConnectSpawnReader
    \/ ConnectSpawnWriter
    \/ ConnectNotify
    \/ WriterRecv
    \/ WriterRecvNone
    \/ WriterWrite
    \/ \E cmd \in FacadeCommands : CallStart(cmd)
    \/ CallComplete
    \/ DropSender

FacadeSpec == Init /\ [][FacadeNext]_vars

\* C12: each facade operation maps to exactly one frame with the matching
\* action and mode and the caller's instrument list verbatim: the i-th frame
\* written after the authentication is the frame of the i-th accepted call,
\* with (action, mode) given by the method and symbols equal to the list
\* passed (same order, duplicates kept, possibly empty); once the writer has
\* nothing left to do there are as many frames as accepted calls.
C12_FacadeFramePerOperation ==
    wire # <<>> =>
      LET k == Len(wire) - 1
          action(op) ==
              IF op \in {"SubscribeLtp", "SubscribeQuote", "SubscribeDepth"}
              THEN "subscribe" ELSE "unsubscribe"
          mode(op) ==
              IF op \in {"SubscribeLtp", "UnsubscribeLtp"} THEN "ltp"
              ELSE IF op \in {"SubscribeQuote", "UnsubscribeQuote"}
                   THEN "quote" ELSE "depth"
      IN /\ k <= Len(sent)
         /\ \A i \in 1..k :
              sent[i].op \in FacadeOps =>
                  wire[i + 1] = [kind |-> "text",
                                 action |-> action(sent[i].op),
                                 mode |-> mode(sent[i].op),
                                 symbols |-> sent[i].instruments]
         /\ (wpc = "recv" /\ cmd_q = <<>>) => k = Len(sent)

\* subscribe_quote([]) and unsubscribe_depth([A, A]) were called and both
\* frames were written.
C12_Witness ==
    /\ Len(wire) = 3
    /\ sent = << Cmd("SubscribeQuote", <<>>),
                 Cmd("UnsubscribeDepth", <<InstA, InstA>>) >>
    /\ wire[2].symbols = <<>>
    /\ wire[3].symbols = <<InstA, InstA>>

\* ------------------------------------------------------------------- C13
\* C13: a failed connect attempt leaves nothing behind and is not retried:
\* once connect() has returned an error (URL parsing, socket open or the
\* write of the authentication frame failed) no reader or writer task exists,
\* no event (Connected included) was produced or received, no command was
\* accepted or buffered, at most the one authentication frame was handed to
\* the socket, and nothing further happens.
C13_FailedConnectLeavesNothing ==
    cpc = "failed" =>
        /\ rpc = "unspawned" /\ wpc = "unspawned"
        /\ data_q = <<>> /\ received = <<>> /\ ~eos
        /\ cmd_q = <<>> /\ sent = <<>> /\ nerr = 0 /\ callpc = "idle"
        /\ wire \in {<<>>, <<AuthFrame>>}
        /\ ~ENABLED Next

\* connect() failed on the write of the authentication frame.
C13_Witness == cpc = "failed" /\ wire = <<AuthFrame>>

\* ------------------------------------------------------------- the codec
\* parse_market_data is a pure function; it is checked on its own, on
\* envelopes drawn from the sets below.
\* JSON values tried under each key of the data object.
ExchangeValues == { Absent, Null, JVal(JString, "NSE"), JVal(JInt, "1") }
LtpValues ==
    { Absent, Null, JVal(JInt, "2500"), JVal(JFloat, "2500.5"),
      JVal(JString, "2500.5") }
VolumeValues ==
    { Absent, JVal(JInt, "100"), JVal(JFloat, "1.5"), JVal(JString, "100") }
BidsValues ==
    { Absent, Null, JVal(JArray, "[]"),
      JVal(JArray, "[{price:2500.0,quantity:10}]"),
      JVal(JArray, "[{price:2500.0}]"), JVal(JInt, "1") }
TimestampValues == { Absent, JVal(JInt, "1700000000"), JVal(JString, "now") }
CodecObjects ==
    { Payload(e, l, v, b, t) :
          e \in ExchangeValues, l \in LtpValues, v \in VolumeValues,
          b \in BidsValues, t \in TimestampValues }
\* JSON arrays tried as the data member.
CodecArrays ==
    { <<>>,
      <<JVal(JString, "NSE"), JVal(JFloat, "2500.5")>>,
      <<JVal(JString, "NSE"), JVal(JFloat, "2500.5"),
        JVal(JInt, "1700000000")>>,
      <<Null, Null, Null>>,
      <<JVal(JString, "NSE"), JVal(JString, "2500.5"),
        JVal(JInt, "1700000000")>>,
      <<JVal(JString, "NSE"), JVal(JFloat, "2500.5"), JVal(JInt, "100"),
        JVal(JInt, "1700000000")>>,
      <<JVal(JString, "NSE"), JVal(JFloat, "2500.5"), JVal(JInt, "100"),
        JVal(JArray, "[]"), JVal(JInt, "1700000000")>> }
CodecData ==
    {NoData, DataOf(Scalar)}
        \cup { DataOf(Obj(p)) : p \in CodecObjects }
        \cup { DataOf(Arr(a)) : a \in CodecArrays }
\* Values of the mode member: missing, and i32 values in and out of 1..3.
CodecModes ==
    {None} \cup { Some(m) : m \in { 0 - 2147483647, 0 - 1, 0, 1, 2, 3, 4, 7,
                                    10, 2147483647 } }
CodecEnvelopes == { Envelope(m, d) : m \in CodecModes, d \in CodecData }

CodecInit ==
    /\ InitProgram
    /\ dec_in \in CodecEnvelopes
    /\ dec_out = NoEvent

\* let ws_data = parse_market_data(market_data);
Decode ==
    /\ dec_out = NoEvent
    /\ dec_out' = parse_market_data(dec_in, 1)
    /\ UNCHANGED <<dec_in, programVars>>

CodecNext == Decode

CodecSpec == CodecInit /\ [][CodecNext]_vars

\* The envelope that was decoded, its mode and its data object.
Decoded == dec_out # NoEvent
DecMode == UnwrapOr(dec_in.mode, 0)
DecIsObject == dec_in.data.some /\ dec_in.data.val.shape = "object"
DecObj == dec_in.data.val.obj

\* ------------------------------------------------------------------- C14
\* C14: for each mode m in {1,2,3}, decoding an envelope with mode m whose
\* data is an object with that mode's members, each missing, null or of the
\* member's type, produces the variant of that mode (1 -> Ltp, 2 -> Quote,
\* 3 -> Depth) carrying exactly the values of the input (a number given
\* without a fraction is the same number as a float), with missing and null
\* members absent and the members the mode does not have absent; it is never
\* another variant or an Error.
C14_WellFormedPayloadDecodes ==
    LET p == DecObj
        out == dec_out.payload
        opt(j) == IF j.k \in {JAbsent, JNull} THEN Absent ELSE j
        num(j) == IF j.k = JInt THEN JVal(JFloat, j.v \o ".0") ELSE opt(j)
        str(j) == j.k \in {JAbsent, JNull, JString}
        f64(j) == j.k \in {JAbsent, JNull, JInt, JFloat}
        i64(j) == j.k \in {JAbsent, JNull, JInt}
        levels(j) == j.k \in {JAbsent, JNull}
                       \/ j \in { JVal(JArray, "[]"),
                                  JVal(JArray, "[{price:2500.0,quantity:10}]") }
        common == str(p.exchange) /\ f64(p.ltp) /\ i64(p.timestamp)
        same == /\ out.exchange = opt(p.exchange)
                /\ out.ltp = num(p.ltp)
                /\ out.timestamp = opt(p.timestamp)
    IN (Decoded /\ DecIsObject) =>
        /\ (DecMode = 1 /\ common) =>
              /\ dec_out.kind = "Ltp" /\ dec_out.msg = "" /\ same
              /\ out.volume = Absent /\ out.bids = Absent
        /\ (DecMode = 2 /\ common /\ i64(p.volume)) =>
              /\ dec_out.kind = "Quote" /\ dec_out.msg = "" /\ same
              /\ out.volume = opt(p.volume) /\ out.bids = Absent
        /\ (DecMode = 3 /\ common /\ i64(p.volume) /\ levels(p.bids)) =>
              /\ dec_out.kind = "Depth" /\ dec_out.msg = "" /\ same
              /\ out.volume = opt(p.volume) /\ out.bids = opt(p.bids)

\* A Depth payload with a null exchange, an ltp given as an integer and a
\* bid ladder was decoded.
C14_Witness ==
    /\ Decoded /\ DecIsObject /\ DecMode = 3
    /\ DecObj.exchange = Null /\ DecObj.ltp = JVal(JInt, "2500")
    /\ DecObj.bids = JVal(JArray, "[{price:2500.0,quantity:10}]")
    /\ dec_out.kind = "Depth"
    /\ dec_out.payload.exchange = Absent
    /\ dec_out.payload.ltp = JVal(JFloat, "2500.0")

\* ------------------------------------------------------------------- C15
\* C15: decoding an envelope whose mode is missing or is an integer outside
\* {1,2,3} produces Error("Unknown mode: <value>"), <value> being the mode in
\* decimal (0 when it is missing), and never a data variant, whatever the
\* data member holds.
C15_UnknownModeIsError ==
    LET text ==
            CASE DecMode = 0 -> "Unknown mode: 0"
              [] DecMode = 4 -> "Unknown mode: 4"
              [] DecMode = 7 -> "Unknown mode: 7"
              [] DecMode = 10 -> "Unknown mode: 10"
              [] DecMode = 2147483647 -> "Unknown mode: 2147483647"
              [] DecMode = 0 - 1 -> "Unknown mode: -1"
              [] DecMode = 0 - 2147483647 -> "Unknown mode: -2147483647"
              [] OTHER -> "-"
    IN (Decoded /\ DecMode \notin {1, 2, 3}) =>
           /\ dec_out.kind = "Error"
           /\ dec_out.msg = text
           /\ dec_out.payload = NoPayload

\* An envelope without a mode that carries a well-formed payload was decoded
\* to Error("Unknown mode: 0").
C15_Witness ==
    /\ Decoded
    /\ dec_in.mode = None /\ dec_in.data = DataOf(Obj(GoodPayload))
    /\ dec_out.msg = "Unknown mode: 0"

\* ------------------------------------------------------------------- C16
\* C16: decoding an envelope with mode 1, 2 or 3 whose data is missing or is
\* not an object with that mode's members (each missing, null or of the
\* member's type) produces Error("Failed to parse LTP data"),
\* Error("Failed to parse Quote data") or Error("Failed to parse Depth
\* data") respectively, and never a data event.
C16_BadPayloadIsError ==
    LET p == DecObj
        str(j) == j.k \in {JAbsent, JNull, JString}
        f64(j) == j.k \in {JAbsent, JNull, JInt, JFloat}
        i64(j) == j.k \in {JAbsent, JNull, JInt}
        levels(j) == j.k \in {JAbsent, JNull}
                       \/ j \in { JVal(JArray, "[]"),
                                  JVal(JArray, "[{price:2500.0,quantity:10}]") }
        common == str(p.exchange) /\ f64(p.ltp) /\ i64(p.timestamp)
        shaped ==
            /\ DecIsObject
            /\ common
            /\ DecMode \in {2, 3} => i64(p.volume)
            /\ DecMode = 3 => levels(p.bids)
        text == CASE DecMode = 1 -> "Failed to parse LTP data"
                  [] DecMode = 2 -> "Failed to parse Quote data"
                  [] OTHER -> "Failed to parse Depth data"
    IN (Decoded /\ DecMode \in {1, 2, 3} /\ ~shaped) =>
           /\ dec_out.kind = "Error"
           /\ dec_out.msg = text
           /\ dec_out.payload = NoPayload

\* ------------------------------------------------------------------- C17
\* C17: the caller always learns that the reader has stopped through a
\* terminal event: whenever the reader task has terminated (close frame,
\* transport error, or the inbound stream ending) and the event receiver is
\* still held, the last event the reader enqueued is Disconnected or Error.
C17_ReaderEndsWithTerminalEvent ==
    (rpc = "done" /\ rx_alive) =>
        LET p == SelectSeq(History, IsFrameEvent)
        IN /\ p # <<>>
           /\ p[Len(p)].kind \in {"Disconnected", "Error"}

\* ------------------------------------------------------------------- C19
\* C19: if the caller drops the event receiver, the reader treats the
\* resulting send failure as fatal: the send it attempts after the drop ends
\* the task, and from then on it reads no further frame.
C19_SendFailureEndsReader ==
    [][ (rpc = "send" /\ ~rx_alive /\ rpc' # "send")
            => (rpc' = "done" /\ nread' = nread) ]_vars

\* ------------------------------------------------------------------- C20
\* The Error event of a transport error.
TransportError(e) == e.kind = "Error" /\ e.msg = "transport"

\* C20: on a transport error from the socket the reader sends exactly one
\* Error event carrying the error description and then terminates.  An Err
\* result makes the reader send that Error and nothing else; the send puts it
\* at the tail of the event channel (it fails if the receiver was dropped)
\* and ends the task; once the task has ended no frame is read, no event is
\* sent and no socket is authenticated again; while the receiver is held, the
\* Error is the reader's last event and its only transport Error.
C20_TransportErrorEndsReader ==
    [][ /\ \A m \in ServerMessages :
               m.kind = "err" =>
                   LET r == ReaderMatch(m, nread + 1)
                   IN r.send /\ r.brk /\ TransportError(r.ev)
        /\ (TransportError(rpend') /\ ~TransportError(rpend))
               => (rpc' = "send" /\ rbreak' /\ nread' = nread + 1)
        /\ (rpc = "send" /\ TransportError(rpend) /\ rpc' # "send")
               => /\ rpc' = "done" /\ rexit' = "error"
                  /\ data_q' = IF rx_alive THEN Append(data_q, rpend)
                               ELSE data_q
        /\ rpc = "done"
               => /\ rpc' = "done" /\ nread' = nread /\ rpend' = NoEvent
                  /\ Len(wire') > Len(wire)
                         => wire'[Len(wire')].kind # "auth"
                  /\ rx_alive' => SelectSeq(History', IsFrameEvent)
                                      = SelectSeq(History, IsFrameEvent)
        /\ (rexit' = "error" /\ rx_alive')
               => LET p == SelectSeq(History', IsFrameEvent)
                  IN /\ p # <<>>
                     /\ TransportError(p[Len(p)])
                     /\ \A i \in 1..(Len(p) - 1) : ~TransportError(p[i])
      ]_vars

\* The caller received a tick and then the Error of a transport error, after
\* which the reader had ended.
C20_Witness ==
    /\ rpc = "done" /\ rexit = "error"
    /\ \E i \in DOMAIN received :
           /\ i > 1
           /\ TransportError(received[i])
           /\ received[i - 1].kind = "Ltp"

\* ------------------------------------------------------------------- C18
\* A server that answers the closing handshake: once the writer has closed
\* the socket the inbound stream neither fails nor ends before the server's
\* close frame; frames already on their way may still arrive.
ReaderNextAnswered ==
    /\ ReaderNext
    /\ ClosedByWriter => (rexit' # "end" /\ ~TransportError(rpend'))

AnsweringNext ==
    \/ ConnectParse
    \/ ConnectOpen
    \/ ConnectAuth
    \/ ConnectSpawnReader
    \/ ConnectSpawnWriter
    \/ ConnectNotify
    \/ ReaderNextAnswered
    \/ ReaderCloseReply
    \/ ReaderSend
    \/ WriterRecv
    \/ WriterRecvNone
    \/ WriterWrite
    \/ \E cmd \in Commands : CallStart(cmd)
    \/ CallComplete
    \/ DropSender
    \/ Recv
    \/ RecvNone
    \/ DropReceiver

\* Fair scheduling of the tasks, a caller that keeps calling recv(), and a
\* server whose answer to the close frame does arrive.
AnsweringSpec ==
    /\ Init /\ [][AnsweringNext]_vars
    /\ Fairness
    /\ WF_vars(Recv)
    /\ WF_vars(ReaderCloseReply)

ReceivedDisconnected ==
    \E i \in DOMAIN received : received[i].kind = "Disconnected"

\* The connection is up: the reader task is running and has not been handed
\* a transport error.
ConnectionUp == ReaderRunning /\ ~TransportError(rpend)

\* C18: a caller-initiated disconnect is eventually reported: once the writer
\* task has processed Disconnect and closed the socket of a connection that
\* is up, a caller that keeps receiving from the event channel eventually
\* receives a Disconnected event (unless it drops the receiver).
C18_DisconnectEventuallyReported ==
    (ClosedByWriter /\ ConnectionUp) ~> (ReceivedDisconnected \/ ~rx_alive)

\* The caller called disconnect(), the writer closed the socket, the server
\* answered and the caller received Disconnected.
C18_Witness ==
    /\ ClosedByWriter
    /\ rexit = "close"
    /\ sent # <<>> /\ sent[Len(sent)] = Disconnect
    /\ received # <<>> /\ received[Len(received)].kind = "Disconnected"
    /\ nread = MaxFrames + 1

\* ------------------------------------------------------------------- C21
\* The event of a close frame.
IsDisconnected(e) == e.kind = "Disconnected"

\* C21: on reading a close frame the reader sends exactly one Disconnected
\* event and then terminates.  A close frame makes the reader send
\* Disconnected and nothing else; the send puts it at the tail of the event
\* channel (it fails if the receiver was dropped) and ends the task; after
\* that no frame is read and no event is sent, whatever arrives on the
\* socket; while the receiver is held, Disconnected is the reader's last
\* event and there is only one.
C21_CloseFrameEndsReader ==
    [][ /\ \A m \in ServerMessages :
               m.kind = "close" =>
                   LET r == ReaderMatch(m, nread + 1)
                   IN r.send /\ r.brk /\ ~r.done /\ IsDisconnected(r.ev)
        /\ (IsDisconnected(rpend') /\ ~IsDisconnected(rpend))
               => (rpc' = "send" /\ rbreak' /\ nread' = nread + 1)
        /\ (rpc = "send" /\ IsDisconnected(rpend) /\ rpc' # "send")
               => /\ rpc' = "done" /\ rexit' = "close"
                  /\ data_q' = IF rx_alive THEN Append(data_q, rpend)
                               ELSE data_q
        /\ rexit = "close"
               => /\ rpc' = "done" /\ rexit' = "close"
                  /\ nread' = nread /\ rpend' = NoEvent
                  /\ ~ENABLED ReaderNext /\ ~ENABLED ReaderCloseReply
                  /\ rx_alive' => SelectSeq(History', IsFrameEvent)
                                      = SelectSeq(History, IsFrameEvent)
        /\ (rexit' = "close" /\ rx_alive')
               => LET p == SelectSeq(History', IsFrameEvent)
                  IN /\ p # <<>>
                     /\ IsDisconnected(p[Len(p)])
                     /\ \A i \in 1..(Len(p) - 1) : ~IsDisconnected(p[i])
      ]_vars

\* The server closed at once: the caller received Disconnected, the reader
\* has ended and the frames the server could still send are left unread.
C21_Witness ==
    /\ rpc = "done" /\ rexit = "close"
    /\ nread < MaxFrames
    /\ wexit = "none"
    /\ received # <<>> /\ IsDisconnected(received[Len(received)])

\* ------------------------------------------------------------------- C22
\* C22: if every command sender is dropped without a Disconnect having been
\* sent, the writer task first writes the frames of all commands still
\* queued, then terminates.  When the writer ends because the channel is
\* closed, the senders are gone, nothing is queued, every accepted command
\* has its frame on the socket in order, none of them is Disconnect and no
\* close frame was written; and once the senders are gone the writer always
\* terminates.
C22_WriterDrainsThenTerminates ==
    /\ [][ (wexit # "closed" /\ wexit' = "closed")
               => /\ ~tx_alive /\ cmd_q = <<>> /\ wpc' = "done"
                  /\ wire' = wire
                  /\ Len(wire) = Len(sent) + 1
                  /\ \A i \in DOMAIN sent :
                         /\ sent[i] # Disconnect
                         /\ wire[i + 1] = RenderCommand(sent[i])
                         /\ wire[i + 1].kind = "text"
         ]_vars
    /\ (cpc = "returned" /\ ~tx_alive) ~> (wpc = "done")

\* The caller sent its commands and dropped the sender; the writer wrote a
\* frame for each and ended on the closed channel.
C22_Witness ==
    /\ wexit = "closed"
    /\ Len(sent) = MaxCmds
    /\ Len(wire) = MaxCmds + 1

\* ------------------------------------------------------------------- C23
\* C23: Disconnect is cooperative, not preemptive: when the close is issued,
\* every command accepted before the Disconnect has already been rendered and
\* written, in order; and while a Disconnect still waits in the command
\* channel, no close has been issued.
C23_DisconnectIsCooperative ==
    /\ \A i \in DOMAIN wire :
           wire[i].kind = "close" =>
               /\ i >= 2 /\ i - 1 <= Len(sent)
               /\ sent[i - 1] = Disconnect
               /\ \A j \in 1..(i - 2) :
                      /\ sent[j] # Disconnect
                      /\ wire[j + 1] = RenderCommand(sent[j])
                      /\ wire[j + 1].kind = "text"
    /\ \A i \in DOMAIN cmd_q :
           cmd_q[i] = Disconnect =>
               \A k \in DOMAIN wire : wire[k].kind # "close"

\* A subscribe was sent before a Disconnect; the subscribe frame was written
\* before the close and the writer ended on the Disconnect.
C23_Witness ==
    /\ Len(wire) = 3
    /\ sent = << Cmd("SubscribeLtp", <<InstA, InstB>>), Disconnect >>
    /\ wire[2] = create_subscribe_message("subscribe", "ltp", <<InstA, InstB>>)
    /\ wire[3] = CloseFrame
    /\ wexit = "disconnect"

\* ------------------------------------------------------------------- C24
\* C24: a failed socket write of a subscribe/unsubscribe frame is swallowed:
\* the writer returns to its receive, its exit reason stays unset, no event
\* is enqueued or delivered, the caller's tally of Ok and Err results does not
\* change, the queued commands stay queued and the next one can be dequeued.
C24_FailedWriteIsSwallowed ==
    [][ (wpc = "write" /\ wcur # Disconnect /\ wire' # wire /\ ~wok')
            => /\ wpc' = "recv" /\ wexit' = "none"
               /\ data_q' = data_q /\ received' = received /\ eos' = eos
               /\ rpend' = rpend /\ rpc' = rpc
               /\ sent' = sent /\ nerr' = nerr /\ callpc' = callpc
               /\ cmd_q' = cmd_q
               /\ cmd_q' # <<>> => (ENABLED WriterRecv)'
      ]_vars

\* The first subscribe frame failed to write and the writer has gone on to
\* dequeue the next command.
C24_Witness ==
    /\ wpc = "write" /\ ~wok /\ wexit = "none"
    /\ Len(wire) = 2 /\ wire[2].kind = "text"
    /\ Len(sent) = 2 /\ nerr = 0

\* ------------------------------------------------------------------- C25
\* A frame that carries no market data: a text frame whose body does not
\* deserialize as the envelope, or a binary, ping or pong frame.
CarriesNoData(m) ==
    \/ m.kind = "other"
    \/ m.kind = "text" /\ ~m.env.some

\* C25: a frame that carries no market data yields no event, no break and no
\* end of the loop, and every other frame yields an event or ends the loop;
\* the read step of such a frame leaves the event channel, the delivered
\* events, the pending event and the exit reason as they were and the reader
\* at its next read.
C25_NoDataFrameChangesNothing ==
    [][ /\ \A m \in ServerMessages :
               LET r == ReaderMatch(m, nread + 1)
               IN IF CarriesNoData(m)
                  THEN ~r.send /\ ~r.brk /\ ~r.done /\ r.ev = NoEvent
                  ELSE r.send \/ r.done
        /\ (rpc = "next" /\ nread' = nread + 1 /\ rpc' \notin {"send", "done"})
               => /\ rpc' = "next"
                  /\ data_q' = data_q /\ received' = received /\ eos' = eos
                  /\ rpend' = NoEvent /\ rpend = NoEvent
                  /\ rexit' = "none" /\ ~rbreak'
                  /\ wire' = wire /\ cmd_q' = cmd_q
                  /\ nread' < MaxFrames => (ENABLED ReaderNext)'
      ]_vars

\* Every frame the reader took carried no market data: nothing but Connected
\* was delivered and the reader is still at its read.
C25_Witness ==
    /\ nread = MaxFrames /\ rpc = "next" /\ rexit = "none"
    /\ rx_alive /\ received = << Connected >> /\ data_q = <<>>

\* ------------------------------------------------------------------- C26
\* A burst of facade calls one longer than the command channel's capacity, so
\* that a send can find the channel full.
BurstCalls == CmdCap + 1

\* The commands of the burst: a subscription and the Disconnect.
BurstCommands == { Cmd("SubscribeLtp", <<InstA, InstB>>), Disconnect }

CallBurst(cmd) ==
    /\ cpc = "returned"
    /\ callpc = "idle"
    /\ tx_alive
    /\ Len(sent) + nerr < BurstCalls
    /\ callpc' = "sending"
    /\ callcmd' = cmd
    /\ callalive' = (wpc \in {"recv", "write"})
    /\ UNCHANGED <<cpc, wire, data_q, cmd_q, sent, nerr, tx_alive>>
    /\ UNCHANGED <<readerVars, writerVars, recvVars>>
    /\ UNCHANGED codecVars

\* The send is polled while the channel is full and open: it registers as a
\* waiter and suspends.
CallSuspend ==
    /\ callpc = "sending"
    /\ ~CmdClosed
    /\ Len(cmd_q) = CmdCap
    /\ callpc' = "waiting"
    /\ UNCHANGED <<cpc, wire, data_q, cmd_q, callcmd, callalive, sent, nerr,
                   tx_alive>>
    /\ UNCHANGED <<readerVars, writerVars, recvVars>>
    /\ UNCHANGED codecVars

BurstNext ==
    \/ ConnectParse
    \/ ConnectOpen
    \/ ConnectAuth
    \/ ConnectSpawnReader
    \/ ConnectSpawnWriter
    \/ ConnectNotify
    \/ ReaderNext
    \/ ReaderCloseReply
    \/ ReaderSend
    \/ WriterRecv
    \/ WriterRecvNone
    \/ WriterWrite
    \/ \E cmd \in BurstCommands : CallBurst(cmd)
    \/ CallSuspend
    \/ CallComplete
    \/ DropSender
    \/ Recv
    \/ RecvNone
    \/ DropReceiver

BurstSpec == Init /\ [][BurstNext]_vars

\* C26 as stated: neither channel ever holds more than its capacity, and a
\* send suspended on a full command channel stays suspended until it enqueues
\* its command at the tail, never failing.
C26_SuspendedSendNeverFails ==
    /\ [](Len(cmd_q) <= CmdCap /\ Len(data_q) <= DataCap)
    /\ [][ callpc = "waiting" =>
               \/ callpc' = "waiting" /\ sent' = sent /\ nerr' = nerr
               \/ /\ callpc' = "idle" /\ nerr' = nerr
                  /\ cmd_q' = Append(cmd_q, callcmd)
                  /\ sent' = Append(sent, callcmd)
         ]_vars

\* C26: neither channel ever holds more than its capacity; a send on a full,
\* open command channel cannot complete, the channel stops being full only by
\* the writer dequeuing, and a suspended send ends either by enqueuing its
\* command at the tail of the open channel with Ok or, when the writer task
\* has terminated meanwhile, with an error and nothing enqueued.
C26_ChannelsBoundedSendSuspends ==
    /\ [](/\ Len(cmd_q) <= CmdCap /\ Len(data_q) <= DataCap
          /\ (callpc \in {"sending", "waiting"} /\ ~CmdClosed
                  /\ Len(cmd_q) = CmdCap) => ~ENABLED CallComplete
          /\ callpc = "waiting" => callcmd # NoCmd)
    /\ [][ /\ callpc = "waiting" =>
                 \/ /\ callpc' = "waiting" /\ callcmd' = callcmd
                    /\ sent' = sent /\ nerr' = nerr
                 \/ /\ callpc' = "idle" /\ ~CmdClosed /\ nerr' = nerr
                    /\ Len(cmd_q) < CmdCap
                    /\ cmd_q' = Append(cmd_q, callcmd)
                    /\ sent' = Append(sent, callcmd)
                 \/ /\ callpc' = "idle" /\ CmdClosed /\ nerr' = nerr + 1
                    /\ cmd_q' = cmd_q /\ sent' = sent
           /\ (Len(cmd_q) = CmdCap /\ Len(cmd_q') < CmdCap) =>
                 \/ wpc = "recv" /\ wcur' = Head(cmd_q) /\ cmd_q' = Tail(cmd_q)
                 \/ wexit' = "disconnect" /\ wcur = Disconnect
         ]_vars

\* A send suspended on the full command channel and the writer has since
\* dequeued a command, so the suspended send can now enqueue its own.
C26_Witness ==
    /\ callpc = "waiting" /\ ~CmdClosed /\ nerr = 0
    /\ Len(sent) = CmdCap /\ Len(cmd_q) = CmdCap - 1 /\ wpc = "write"
    /\ ENABLED CallComplete

\* ------------------------------------------------------------------- C27
\* C27: the two tasks terminate independently and only for their own
\* reasons.  The writer ends only on the step that handles a dequeued
\* Disconnect or on a receive from the closed, empty command channel; the
\* reader ends only after a close frame, a transport error or the end of the
\* inbound stream; the step that ends one task leaves the other task's state
\* as it was; and a stopped reader, a closed socket or a failed write does not
\* keep the writer from its next step, nor a stopped writer the reader.
C27_TasksTerminateIndependently ==
    [][ /\ (wpc # "done" /\ wpc' = "done") =>
              /\ \/ wpc = "write" /\ wcur = Disconnect /\ wexit' = "disconnect"
                 \/ /\ wpc = "recv" /\ cmd_q = <<>> /\ ~tx_alive
                    /\ wexit' = "closed"
              /\ readerVars' = readerVars /\ data_q' = data_q
        /\ (rpc # "done" /\ rpc' = "done") =>
              /\ \/ /\ rpc = "send" /\ rbreak /\ IsDisconnected(rpend)
                    /\ rexit' = "close"
                 \/ /\ rpc = "send" /\ rbreak /\ TransportError(rpend)
                    /\ rexit' = "error"
                 \/ rpc = "next" /\ rexit' = "end"
              /\ writerVars' = writerVars /\ cmd_q' = cmd_q /\ wire' = wire
        /\ (wpc' = "recv" /\ cmd_q' # <<>>) => (ENABLED WriterRecv)'
        /\ wpc' = "write" => (ENABLED WriterWrite)'
        /\ (wpc = "write" /\ wcur # Disconnect) => wpc' # "done"
        /\ (rpc' = "next" /\ nread' < MaxFrames) => (ENABLED ReaderNext)'
        /\ (rpc' = "send" /\ (~rx_alive' \/ Len(data_q') < DataCap))
               => (ENABLED ReaderSend)'
      ]_vars

\* The reader ended on a transport error and the writer, whose last write
\* failed, has dequeued the next command and is about to write it.
C27_Witness ==
    /\ rpc = "done" /\ rexit = "error"
    /\ wpc = "write" /\ wexit = "none" /\ ~wok /\ Len(wire) = 2

\* ------------------------------------------------------------------- C28
\* The writer ended because every command sender was dropped.
SendersDropped == wexit = "closed"

\* C28: dropping every command sender without a Disconnect does not close
\* the connection.  When the writer has ended that way no close frame was
\* ever written and no close reply from the server is due; the step that ends
\* the writer leaves the socket, the reader and the event channel as they
\* were; afterwards the reader still takes frames and enqueues their events,
\* and it ends only on a close frame, a transport error or the end of the
\* stream coming from the server.
C28_DroppedSendersKeepConnection ==
    /\ [](SendersDropped =>
              /\ \A i \in DOMAIN wire : wire[i].kind # "close"
              /\ \A i \in DOMAIN sent : sent[i] # Disconnect
              /\ ~ClosedByWriter /\ ~ENABLED ReaderCloseReply
              /\ (rpc = "next" /\ nread < MaxFrames) => ENABLED ReaderNext
              /\ (rpc = "send" /\ (~rx_alive \/ Len(data_q) < DataCap))
                     => ENABLED ReaderSend
              /\ rpc = "done" => rexit \in {"close", "error", "end"})
    /\ [][ /\ (~SendersDropped /\ SendersDropped') =>
                 /\ wire' = wire /\ readerVars' = readerVars
                 /\ data_q' = data_q /\ recvVars' = recvVars
           /\ (SendersDropped /\ rpc = "send" /\ rpc' # "send" /\ rx_alive) =>
                 data_q' = Append(data_q, rpend)
           /\ (SendersDropped /\ rpc = "next" /\ nread' = nread + 1) =>
                 \E m \in ServerMessages :
                     LET r == ReaderMatch(m, nread + 1)
                     IN rpend' = r.ev /\ rbreak' = r.brk
         ]_vars

\* The senders were dropped with no command sent, the writer has ended, and
\* the reader has just decoded a tick that it is about to deliver.
C28_Witness ==
    /\ SendersDropped /\ sent = <<>> /\ wire = << AuthFrame >>
    /\ rpc = "send" /\ rpend.kind = "Ltp" /\ rx_alive
    /\ nread = MaxFrames

\* ------------------------------------------------------------------- C29
IsConnected(e) == e.kind = "Connected"

\* The Connected events among those delivered or still queued.
ConnectedEvents == SelectSeq(History, IsConnected)

\* C29: each successful connect() enqueues exactly one Connected event.  No
\* inbound frame makes the reader produce Connected; every Connected in the
\* event stream is the one connect made; while the receiver is alive the
\* stream holds one Connected once connect has returned and none before; and
\* the number of Connected events grows only on connect's own send.
C29_ExactlyOneConnected ==
    /\ [](/\ \A m \in ServerMessages :
                 ~IsConnected(ReaderMatch(m, nread + 1).ev)
          /\ ~IsConnected(rpend)
          /\ \A i \in DOMAIN History :
                 IsConnected(History[i]) <=> ~IsFrameEvent(History[i])
          /\ Len(ConnectedEvents) <= 1
          /\ rx_alive =>
                 Len(ConnectedEvents) = IF cpc = "returned" THEN 1 ELSE 0)
    /\ [][ Len(ConnectedEvents') > Len(ConnectedEvents) =>
               /\ cpc = "notify" /\ cpc' = "returned"
               /\ data_q' = Append(data_q, Connected)
               /\ readerVars' = readerVars
         ]_vars

\* connect has returned, the reader has ended, every frame it took produced
\* an event, and all of them are in the stream next to the one Connected.
C29_Witness ==
    /\ cpc = "returned" /\ rpc = "done" /\ rx_alive
    /\ nread = MaxFrames /\ Len(History) = MaxFrames + 1
    /\ Len(ConnectedEvents) = 1

\* ------------------------------------------------------------------- C30
\* A caller that loops over the event receiver until recv() returns None.
DrainingSpec == ConsumingSpec /\ WF_vars(RecvNone)

\* connect has returned and the reader task has ended: no event sender is
\* left.
StreamOver == cpc = "returned" /\ rpc = "done"

\* C30: the event stream ends after the reader stops.  Once connect has
\* returned and the reader has terminated, nothing more is enqueued, each
\* receive takes the oldest queued event, the end of the stream is reported
\* only when the channel is empty and no sender is alive, nothing is received
\* after it, it can be reported whatever the writer task is doing, and a
\* caller that keeps receiving eventually gets it.
C30_StreamEndsAfterReaderStops ==
    /\ [](/\ eos => (StreamOver /\ data_q = <<>>)
          /\ (StreamOver /\ rx_alive /\ ~eos /\ data_q = <<>>)
                 => ENABLED RecvNone
          /\ (StreamOver /\ rx_alive /\ data_q # <<>>) => ENABLED Recv)
    /\ [][ /\ (StreamOver /\ rx_alive /\ rx_alive') =>
                 /\ History' = History
                 /\ \/ data_q' = data_q /\ received' = received
                    \/ /\ data_q # <<>> /\ data_q' = Tail(data_q)
                       /\ received' = Append(received, Head(data_q))
           /\ (~eos /\ eos') => (received' = received /\ data_q = <<>>)
           /\ eos => (eos' /\ received' = received /\ data_q' = <<>>)
         ]_vars
    /\ (StreamOver /\ rx_alive) ~> (eos \/ ~rx_alive)

\* The caller drained the stream to its end, every frame's event included,
\* while the writer task is still waiting for commands.
C30_Witness ==
    /\ eos /\ rx_alive /\ wpc = "recv" /\ tx_alive
    /\ Len(received) = MaxFrames + 1

====
